---- MODULE Spec2Model ----
(***************************************************************************)
(* Model of earthstar-data: a schema layer (atoms, objects, collections,   *)
(* metadata) that maps structured values onto a path-addressed document    *)
(* store, reads them back by folding documents through reduce, finds the   *)
(* owners of a collection key, and keeps a live view up to date.           *)
(*                                                                         *)
(* Strings (paths, document text, keys) are sequences of one-character     *)
(* strings, so that prefix, suffix, split and percent-encoding are         *)
(* computed as the code computes them.                                     *)
(***************************************************************************)
EXTENDS Integers, Sequences, FiniteSets, TLC

(***************************************************************************)
(* Strings                                                                 *)
(***************************************************************************)

\* s.startsWith(p)
StartsWith(s, p) == Len(p) <= Len(s) /\ SubSeq(s, 1, Len(p)) = p

\* s.endsWith(e)
EndsWith(s, e) == Len(e) <= Len(s) /\ SubSeq(s, Len(s) - Len(e) + 1, Len(s)) = e

\* s.substring(n)
Substring(s, n) == SubSeq(s, n + 1, Len(s))

\* s.slice(0, n)
SliceTo(s, n) == SubSeq(s, 1, n)

\* s.replace(/\/$/, '')
StripTrailingSlash(s) ==
  IF Len(s) > 0 /\ s[Len(s)] = "/" THEN SubSeq(s, 1, Len(s) - 1) ELSE s

\* The text JavaScript produces when undefined is converted to a string.
UndefinedText == <<"u", "n", "d", "e", "f", "i", "n", "e", "d">>

RECURSIVE SplitFrom(_, _, _)
SplitFrom(s, i, cur) ==
  IF i > Len(s)
  THEN IF cur = <<>> THEN <<>> ELSE <<cur>>
  ELSE IF s[i] = "/"
       THEN (IF cur = <<>> THEN <<>> ELSE <<cur>>) \o SplitFrom(s, i + 1, <<>>)
       ELSE SplitFrom(s, i + 1, Append(cur, s[i]))

\* path.split('/').filter(Boolean)
splitPath(path) == SplitFrom(path, 1, <<>>)

(***************************************************************************)
(* Percent-encoding of collection keys                                     *)
(***************************************************************************)

\* The characters of the model's alphabet that encodeURIComponent escapes,
\* with their escape sequences.
Escaped ==
  ("/" :> <<"%", "2", "F">>) @@ ("%" :> <<"%", "2", "5">>) @@
  ("@" :> <<"%", "4", "0">>)

RECURSIVE encodeURIComponent(_)
encodeURIComponent(s) ==
  IF s = <<>> THEN <<>>
  ELSE (IF Head(s) \in DOMAIN Escaped THEN Escaped[Head(s)] ELSE <<Head(s)>>)
       \o encodeURIComponent(Tail(s))

\* Hexadecimal digits are accepted in either case when decoding.
UpperHex(c) == IF c = "f" THEN "F" ELSE c

\* decodeURIComponent: [ok |-> TRUE, val |-> text], or ok = FALSE where the
\* code throws URIError (a "%" not followed by a known escape).
RECURSIVE decodeURIComponent(_)
decodeURIComponent(s) ==
  IF s = <<>> THEN [ok |-> TRUE, val |-> <<>>]
  ELSE IF Head(s) # "%"
       THEN LET rest == decodeURIComponent(Tail(s))
            IN  [ok |-> rest.ok, val |-> <<Head(s)>> \o rest.val]
  ELSE IF Len(s) < 3 THEN [ok |-> FALSE, val |-> <<>>]
  ELSE LET code == <<"%", UpperHex(s[2]), UpperHex(s[3])>>
           hits == {c \in DOMAIN Escaped : Escaped[c] = code}
       IN  IF hits = {} THEN [ok |-> FALSE, val |-> <<>>]
           ELSE LET rest == decodeURIComponent(SubSeq(s, 4, Len(s)))
                IN  [ok |-> rest.ok,
                     val |-> <<CHOOSE c \in hits : TRUE>> \o rest.val]

(***************************************************************************)
(* Values.  Every value is a record with a single field whose name is its  *)
(* type, so that values of different types can be compared.                *)
(***************************************************************************)

Null == [null |-> TRUE]
Str(s) == [str |-> s]
Num(n) == [num |-> n]
NaN == [nan |-> TRUE]
Big(neg, mag) == [big |-> [neg |-> neg, mag |-> mag]]
Bool(b) == [bool |-> b]
Date(ms) == [date |-> ms]
InvalidDate == [baddate |-> TRUE]
\* An object or a collection map: a function from keys (texts) to values.
Obj(f) == [obj |-> f]
\* An attachment with its metadata: {metadata, attachment}
Att(metadata) == [att |-> metadata]
\* The outcome of a reduce or read that threw.
Err == [err |-> TRUE]

IsNull(v) == "null" \in DOMAIN v
IsObj(v) == "obj" \in DOMAIN v
IsErr(v) == "err" \in DOMAIN v

\* The value undefined
Undefined == [undefined |-> TRUE]
IsUndefined(v) == "undefined" \in DOMAIN v

\* prev?.[key]
Prop(v, key) == IF IsObj(v) /\ key \in DOMAIN v.obj THEN v.obj[key] ELSE Undefined

\* prev?.[key] ?? null
Get(v, key) == IF IsUndefined(Prop(v, key)) THEN Null ELSE Prop(v, key)

Keys(v) == IF IsObj(v) THEN DOMAIN v.obj ELSE {}

\* {...prev, [key]: val}
With(v, key, val) ==
  Obj([k \in Keys(v) \cup {key} |-> IF k = key THEN val ELSE v.obj[k]])

\* Object.assign({}, prev); delete next[key]
Without(v, key) == Obj([k \in Keys(v) \ {key} |-> v.obj[k]])

\* A collapse check that never finds the object empty
isEmptyObjectNever(v) == FALSE

isEmptyObject(v) == Keys(v) = {}

(***************************************************************************)
(* Atom codecs                                                             *)
(***************************************************************************)

DigitChar == <<"0", "1", "2", "3", "4", "5", "6", "7", "8", "9">>
IsDigit(c) == \E d \in 1..10 : DigitChar[d] = c
DigitOf(c) == (CHOOSE d \in 1..10 : DigitChar[d] = c) - 1
AllDigits(s) == \A i \in 1..Len(s) : IsDigit(s[i])

RECURSIVE NatText(_)
NatText(n) ==
  IF n < 10 THEN <<DigitChar[n + 1]>>
  ELSE NatText(n \div 10) \o <<DigitChar[(n % 10) + 1]>>

RECURSIVE TextNat(_)
TextNat(s) ==
  IF s = <<>> THEN 0
  ELSE TextNat(SubSeq(s, 1, Len(s) - 1)) * 10 + DigitOf(s[Len(s)])

\* String(n) for an integer n
NumberEncode(n) == IF n < 0 THEN <<"-">> \o NatText(0 - n) ELSE NatText(n)

\* Number(text) for a non-empty text: a signed decimal integer, else NaN
NumberDecode(s) ==
  LET signed == Len(s) > 0 /\ s[1] \in {"-", "+"}
      body == IF signed THEN Tail(s) ELSE s
  IN  IF body = <<>> \/ ~AllDigits(body) THEN NaN
      ELSE IF signed /\ s[1] = "-" THEN Num(0 - TextNat(body))
      ELSE Num(TextNat(body))

RECURSIVE DigitsText(_)
DigitsText(mag) ==
  IF mag = <<>> THEN <<>> ELSE <<DigitChar[Head(mag) + 1]>> \o DigitsText(Tail(mag))

RECURSIVE TextDigits(_)
TextDigits(s) ==
  IF s = <<>> THEN <<>> ELSE <<DigitOf(Head(s))>> \o TextDigits(Tail(s))

RECURSIVE StripZeros(_)
StripZeros(mag) ==
  IF Len(mag) > 1 /\ Head(mag) = 0 THEN StripZeros(Tail(mag)) ELSE mag

\* String(x) for a bigint x given by its sign and its decimal digits
BigintEncode(b) == (IF b.neg THEN <<"-">> ELSE <<>>) \o DigitsText(b.mag)

\* BigInt(text): throws SyntaxError on a text that is not a decimal integer
BigintDecode(s) ==
  LET signed == Len(s) > 0 /\ s[1] \in {"-", "+"}
      body == IF signed THEN Tail(s) ELSE s
  IN  IF body = <<>> \/ ~AllDigits(body) THEN Err
      ELSE LET mag == StripZeros(TextDigits(body))
           IN  Big(signed /\ s[1] = "-" /\ mag # <<0>>, mag)

BooleanEncode(b) == IF b THEN <<"1">> ELSE <<"0">>
BooleanDecode(s) == Bool(s = <<"1">>)

\* n written with exactly w digits
Pad(n, w) ==
  LET t == NatText(n)
  IN  [i \in 1..(w - Len(t)) |-> "0"] \o t

IsoDay == <<"1", "9", "7", "0", "-", "0", "1", "-", "0", "1", "T">>
MsPerDay == 86400000

\* x.toISOString() for an instant of 1 January 1970 (UTC), given in ms
DatetimeEncode(ms) ==
  IsoDay \o Pad(ms \div 3600000, 2) \o <<":">> \o Pad((ms \div 60000) % 60, 2)
         \o <<":">> \o Pad((ms \div 1000) % 60, 2) \o <<".">> \o Pad(ms % 1000, 3)
         \o <<"Z">>

\* new Date(text) for a text in the format toISOString produces
DatetimeDecode(s) ==
  IF /\ Len(s) = 24
     /\ SubSeq(s, 1, 11) = IsoDay
     /\ s[14] = ":" /\ s[17] = ":" /\ s[20] = "." /\ s[24] = "Z"
     /\ AllDigits(SubSeq(s, 12, 13) \o SubSeq(s, 15, 16) \o SubSeq(s, 18, 19)
                  \o SubSeq(s, 21, 23))
     /\ TextNat(SubSeq(s, 12, 13)) < 24
     /\ TextNat(SubSeq(s, 15, 16)) < 60
     /\ TextNat(SubSeq(s, 18, 19)) < 60
  THEN Date(TextNat(SubSeq(s, 12, 13)) * 3600000 + TextNat(SubSeq(s, 15, 16)) * 60000
            + TextNat(SubSeq(s, 18, 19)) * 1000 + TextNat(SubSeq(s, 21, 23)))
  ELSE InvalidDate

\* The members of a set: x => x ? '1' : '' and () => true
SetEncode(b) == IF b THEN <<"1">> ELSE <<>>
SetDecode(s) == Bool(TRUE)

\* codec.encode(data) for a non-null value of the codec's type
Encode(codec, v) ==
  CASE codec = "string" -> v.str
    [] codec = "number" -> NumberEncode(v.num)
    [] codec = "bigint" -> BigintEncode(v.big)
    [] codec = "boolean" -> BooleanEncode(v.bool)
    [] codec = "datetime" -> DatetimeEncode(v.date)
    [] codec = "member" -> SetEncode(v.bool)

\* codec.decode(text)
Decode(codec, text) ==
  CASE codec = "string" -> Str(text)
    [] codec = "number" -> NumberDecode(text)
    [] codec = "bigint" -> BigintDecode(text)
    [] codec = "boolean" -> BooleanDecode(text)
    [] codec = "datetime" -> DatetimeDecode(text)
    [] codec = "member" -> SetDecode(text)

(***************************************************************************)
(* Schemas                                                                 *)
(***************************************************************************)

Atom(codec) == [kind |-> "atom", codec |-> codec]
\* shape: the declared fields in declaration order, each <<key, type>>
ObjectType(shape) == [kind |-> "object", shape |-> shape]
CollectionType(valueType) == [kind |-> "collection", valueType |-> valueType]
AttachmentType == [kind |-> "attachment"]
MetadataType(shape) == [kind |-> "metadata", shape |-> shape]
\* appFormat(schema, {format, prefix})
AppFormatType(schema, format, prefix) ==
  [kind |-> "appFormat", schema |-> schema, format |-> format, prefix |-> prefix]
docSlug == [kind |-> "docSlug"]
docPath == [kind |-> "docPath"]

string == Atom("string")
number == Atom("number")
bigint == Atom("bigint")
boolean == Atom("boolean")
datetime == Atom("datetime")
set == CollectionType(Atom("member"))

SELF_SIGIL == <<"@", "s", "e", "l", "f">>

ShapeKeys(shape) == {shape[i][1] : i \in 1..Len(shape)}
\* this.shape[attrKey]
ShapeType(shape, key) == shape[CHOOSE i \in 1..Len(shape) : shape[i][1] = key][2]

\* The last element of doc.path.split('/')
RECURSIVE LastSegment(_)
LastSegment(path) ==
  IF \E i \in 1..Len(path) : path[i] = "/"
  THEN LastSegment(Tail(path))
  ELSE path

(***************************************************************************)
(* reduce: fold one document into the value accumulated so far             *)
(***************************************************************************)

\* AttachmentType.reduce.  doc.attachment is what replica.getAttachment(doc)
\* returns: an error, undefined ("absent"), or the attachment ("held")
AttachmentReduce(doc) ==
  CASE doc.attachment = "error" -> Err
    [] doc.attachment = "absent" -> Null
    [] doc.attachment = "held" -> Att(doc.text)

\* Atom.reduce without the test for empty text
AtomReduceNoEmptyCheck(schema, doc) == Decode(schema.codec, doc.text)

\* Atom.reduce
AtomReduce(schema, doc) ==
  IF doc.text = <<>> THEN Null ELSE Decode(schema.codec, doc.text)

RECURSIVE Reduce(_, _, _, _)
Reduce(schema, doc, pathComponents, prev) ==
  CASE schema.kind = "atom" -> AtomReduce(schema, doc)
    [] schema.kind = "attachment" -> AttachmentReduce(doc)
    [] schema.kind = "docSlug" -> Str(LastSegment(doc.path))
    [] schema.kind = "docPath" -> Str(doc.path)
    [] schema.kind = "metadata" ->
         Obj([k \in ShapeKeys(schema.shape) |->
                Reduce(ShapeType(schema.shape, k), doc, pathComponents, prev)])
    [] schema.kind = "object" ->
         LET attrKey == IF pathComponents = <<>> THEN SELF_SIGIL
                        ELSE Head(pathComponents)
             remainingPath == IF pathComponents = <<>> THEN <<>>
                              ELSE Tail(pathComponents)
         IN  IF attrKey \notin ShapeKeys(schema.shape) THEN prev
             ELSE LET val == Reduce(ShapeType(schema.shape, attrKey), doc,
                                    remainingPath, Prop(prev, attrKey))
                  IN  IF IsErr(val) THEN Err
                      ELSE IF IsNull(val)
                      THEN LET next == Without(prev, attrKey)
                           IN  IF isEmptyObject(next) THEN Null ELSE next
                      ELSE With(prev, attrKey, val)
    [] schema.kind = "appFormat" ->
         LET isNumber == pathComponents # <<>> /\ AllDigits(Head(pathComponents))
             minorVersion == TextNat(Head(pathComponents))
             restPath == IF pathComponents = <<>> THEN <<>>
                         ELSE Tail(pathComponents)
             prefixComponents == splitPath(schema.prefix)
         IN  IF isNumber /\ minorVersion > schema.format.minor THEN prev
             ELSE IF ~StartsWith(restPath, prefixComponents) THEN prev
             ELSE Reduce(schema.schema, doc,
                         Substring(restPath, Len(prefixComponents)), prev)
    [] schema.kind = "collection" ->
         LET rawKey == IF pathComponents = <<>> THEN UndefinedText
                       ELSE Head(pathComponents)
             remainingPath == IF pathComponents = <<>> THEN <<>>
                              ELSE Tail(pathComponents)
             decoded == decodeURIComponent(rawKey)
             key == decoded.val
         IN  IF ~decoded.ok THEN Err
             ELSE IF doc.text = <<>>
             THEN LET next == Without(prev, key)
                  IN  IF isEmptyObject(next) THEN Null ELSE next
             ELSE LET inner == Reduce(schema.valueType, doc, remainingPath,
                                      Get(prev, key))
                  IN  IF IsErr(inner) THEN Err
                      ELSE IF IsNull(inner)
                      THEN LET next == Without(prev, key)
                           IN  IF isEmptyObject(next) THEN Null ELSE next
                      ELSE With(prev, key, inner)

(***************************************************************************)
(* The document store: a function from the paths that hold a document to   *)
(* the document's text.  A wiped document stays in the store with empty    *)
(* text.                                                                   *)
(***************************************************************************)

EmptyStore == <<>>

Doc(st, path) == [path |-> path, text |-> st[path]]

\* replica.queryPaths / replica.queryDocs with filter {pathStartsWith}
PathsStartingWith(st, prefix) == {p \in DOMAIN st : StartsWith(p, prefix)}

\* replica.set(author, {path, text})
StoreSet(st, path, text) ==
  [p \in DOMAIN st \cup {path} |-> IF p = path THEN text ELSE st[p]]

RECURSIVE ApplyMutations(_, _)
ApplyMutations(st, muts) ==
  IF muts = <<>> THEN st
  ELSE ApplyMutations(StoreSet(st, Head(muts).path, Head(muts).text), Tail(muts))

\* The enumerations of a finite set
RECURSIVE Orders(_)
Orders(S) ==
  IF S = {} THEN {<<>>}
  ELSE UNION {{<<x>> \o o : o \in Orders(S \ {x})} : x \in S}

\* replica.wipeDocAtPath(identity, path): the document, if there is one, is
\* overwritten with empty text.  No caller looks at what the call returns:
\* the mutation is not checked.
WipeDocAtPath(st, path) ==
  IF path \in DOMAIN st
  THEN <<[path |-> path, text |-> <<>>, checked |-> FALSE]>>
  ELSE <<>>

RECURSIVE WipeAll(_, _)
WipeAll(st, paths) ==
  IF paths = {} THEN <<>>
  ELSE LET p == CHOOSE x \in paths : TRUE
       IN  WipeDocAtPath(st, p) \o WipeAll(st, paths \ {p})

\* The document mutations wipeDocsUnderPath issues
wipeDocsUnderPath(st, path) ==
  WipeAll(st, PathsStartingWith(st, path \o <<"/">>)) \o WipeDocAtPath(st, path)

(***************************************************************************)
(* write: the document mutations a write issues, in the order issued       *)
(***************************************************************************)

RECURSIVE WriteMutations(_, _, _, _)
RECURSIVE ObjectWrites(_, _, _, _, _)
RECURSIVE CollectionWrites(_, _, _, _, _)

\* The child writes of ObjectType.write for the declared fields from index i
ObjectWrites(schema, st, path, data, i) ==
  IF i > Len(schema.shape) THEN <<>>
  ELSE LET key == schema.shape[i][1]
           nextPath == IF key = SELF_SIGIL THEN path ELSE path \o <<"/">> \o key
       IN  (IF key \in Keys(data)
            THEN WriteMutations(schema.shape[i][2], st, nextPath, data.obj[key])
            ELSE <<>>)
           \o ObjectWrites(schema, st, path, data, i + 1)

\* The child writes of CollectionType.write for the entries with key in keys
CollectionWrites(schema, st, path, data, keys) ==
  IF keys = {} THEN <<>>
  ELSE LET key == CHOOSE k \in keys : TRUE
           rawKey == encodeURIComponent(key)
       IN  WriteMutations(schema.valueType, st, path \o <<"/">> \o rawKey,
                          data.obj[key])
           \o CollectionWrites(schema, st, path, data, keys \ {key})

\* Atom.write: one replica.set, whose outcome goes to requireWriteSuccess
AtomWrite(schema, path, data) ==
  <<[path |-> path,
     text |-> IF IsNull(data) THEN <<>> ELSE Encode(schema.codec, data),
     checked |-> TRUE]>>

\* AttachmentType.write: a wipe of the document for null, else one
\* replica.set, whose outcome goes to requireWriteSuccess
AttachmentWrite(st, path, data) ==
  IF IsNull(data) THEN WipeDocAtPath(st, path)
  ELSE <<[path |-> path, text |-> data.att, checked |-> TRUE]>>

WriteMutations(schema, st, path, data) ==
  CASE schema.kind = "atom" -> AtomWrite(schema, path, data)
    [] schema.kind = "attachment" -> AttachmentWrite(st, path, data)
    [] schema.kind = "object" ->
         IF IsNull(data) THEN wipeDocsUnderPath(st, path)
         ELSE ObjectWrites(schema, st, path, data, 1)
    [] schema.kind = "collection" ->
         IF IsNull(data) THEN wipeDocsUnderPath(st, path)
         ELSE CollectionWrites(schema, st, path, data, Keys(data))

\* The store after schema.write({path, data})
WriteStore(schema, st, path, data) ==
  ApplyMutations(st, WriteMutations(schema, st, path, data))

(***************************************************************************)
(* read                                                                    *)
(***************************************************************************)

getContentPrefix(path) == IF EndsWith(path, <<"/">>) THEN path \o <<"/">> ELSE path

RECURSIVE FoldDocs(_, _, _, _, _)
FoldDocs(schema, st, contentsPrefix, docPaths, result) ==
  IF docPaths = <<>> \/ IsErr(result) THEN result
  ELSE FoldDocs(schema, st, contentsPrefix, Tail(docPaths),
                Reduce(schema, Doc(st, Head(docPaths)),
                       splitPath(Substring(Head(docPaths), Len(contentsPrefix))),
                       result))

\* [root, ...contents] without the absent root: the paths of the documents
\* read folds, in order, when the store's query returns the content
\* documents in the order contents
FoldedPaths(st, path, contents) ==
  LET root == StripTrailingSlash(getContentPrefix(path))
  IN  (IF root \in DOMAIN st THEN <<root>> ELSE <<>>) \o contents

\* schema.read({path}) for that order
Read(schema, st, path, contents) ==
  FoldDocs(schema, st, getContentPrefix(path), FoldedPaths(st, path, contents),
           Null)

\* The values schema.read({path}) can return, over the orders in which the
\* store may enumerate the content documents
ReadSet(schema, st, path) ==
  {Read(schema, st, path, contents) :
     contents \in Orders(PathsStartingWith(st, getContentPrefix(path)))}

(***************************************************************************)
(* findByCollectionKey                                                     *)
(***************************************************************************)

\* An optional text is <<>> (undefined) or <<text>>.  Its conversion to a
\* string by the + operator:
ToText(opt) == IF opt = <<>> THEN UndefinedText ELSE opt[1]

\* replica.queryPaths({filter}) with optional pathStartsWith and pathEndsWith
QueryPaths(st, filter) ==
  {p \in DOMAIN st :
     /\ filter.pathStartsWith = <<>> \/ StartsWith(p, filter.pathStartsWith[1])
     /\ filter.pathEndsWith = <<>> \/ EndsWith(p, filter.pathEndsWith[1])}

\* A path ending without the separator between the prefix and the key
PathEndingNoSeparator(key, collectionPrefix) ==
  ToText(collectionPrefix) \o encodeURIComponent(key)

\* opts.collectionPrefix + '/' + encodeURIComponent(key)
PathEnding(key, collectionPrefix) ==
  ToText(collectionPrefix) \o <<"/">> \o encodeURIComponent(key)

\* findByCollectionKey(key, {collectionPrefix, filter: {pathStartsWith}})
findByCollectionKey(st, key, collectionPrefix, pathStartsWith) ==
  LET pathEnding == PathEnding(key, collectionPrefix)
      relationPaths ==
        QueryPaths(st, [pathStartsWith |-> pathStartsWith,
                        pathEndsWith |-> <<pathEnding>>])
  IN  {SliceTo(path, Len(path) - Len(pathEnding)) : path \in relationPaths}

(***************************************************************************)
(* The schemas and the values the model writes                             *)
(***************************************************************************)

\* Field names and collection keys
TITLE == <<"t">>
DESCRIPTION == <<"d">>
NESTED == <<"m">>
RELATED == <<"r">>
FIELD_P == <<"p">>
FIELD_Q == <<"q">>
SLUG == <<"s">>
DOCPATH == <<"h">>
CONTENT == <<"c">>

\* The schemas of the test suite, by name
SchemaOf(name) ==
  CASE name = "string" -> string
    [] name = "number" -> number
    [] name = "bigint" -> bigint
    [] name = "boolean" -> boolean
    [] name = "datetime" -> datetime
    [] name = "object" -> ObjectType(<< <<SELF_SIGIL, string>>, <<TITLE, string>> >>)
    [] name = "nested" ->
         ObjectType(<< <<SELF_SIGIL, string>>,
                       <<NESTED, ObjectType(<< <<DESCRIPTION, string>> >>)>> >>)
    [] name = "set" -> set
    [] name = "dict" ->
         CollectionType(ObjectType(<< <<FIELD_P, string>>, <<FIELD_Q, string>> >>))
    [] name = "post" -> ObjectType(<< <<TITLE, string>>, <<RELATED, set>> >>)
    [] name = "attachment" -> AttachmentType
    [] name = "meta" ->
         ObjectType(<< <<SELF_SIGIL,
                         MetadataType(<< <<SLUG, docSlug>>, <<DOCPATH, docPath>>,
                                         <<CONTENT, string>> >>)>>,
                       <<TITLE, string>> >>)

AtomNames == {"string", "number", "bigint", "boolean", "datetime"}
ObjectNames == {"object", "nested", "post", "meta"}
CollectionNames == {"set", "dict"}
SchemaNames == AtomNames \cup ObjectNames \cup CollectionNames

\* The paths values are written at
PathO == <<"/", "o">>
PathP == <<"/", "p">>
Paths == {PathO}

\* The collection keys the model writes: the first MaxKeys of KeyList
KeyList == << <<"/", "p">>, <<"k">>, <<"%">> >>
MaxKeys == 2
KeySet == {KeyList[i] : i \in 1..MaxKeys}
\* A dict of objects, and a collection within an object, is written with the
\* first key only
DictKeySet == {KeyList[1]}

\* 10^27, the bigint of the test suite, as decimal digits
BigTestMag == <<1>> \o [i \in 1..27 |-> 0]

\* The non-null values of each atomic type that the model writes
AtomValues(codec) ==
  CASE codec = "string" -> {Str(<<>>), Str(<<"a">>), Str(<<"b">>)}
    [] codec = "number" -> {Num(0), Num(12), Num(0 - 7)}
    [] codec = "bigint" -> {Big(FALSE, <<0>>), Big(FALSE, BigTestMag), Big(TRUE, <<5>>)}
    [] codec = "boolean" -> {Bool(TRUE), Bool(FALSE)}
    [] codec = "datetime" -> {Date(0), Date(45296789), Date(MsPerDay - 1)}
    [] codec = "member" -> {Bool(TRUE)}

IsWritable(schema) == schema.kind \in {"atom", "object", "collection"}

RECURSIVE ValuesAt(_, _)
\* The maps from the keys D to write values of the types typeOf gives them
RECURSIVE MapsOver(_, _)
MapsOver(D, typeOf) ==
  LET all == UNION {ValuesAt(typeOf[k], FALSE) : k \in D}
  IN  {f \in [D -> all] : \A k \in D : f[k] \in ValuesAt(typeOf[k], FALSE)}

\* The values schema.write accepts, null included; top says that the value
\* is the whole value written, not a part of it
ValuesAt(schema, top) ==
  CASE schema.kind = "atom" -> AtomValues(schema.codec) \cup {Null}
    [] schema.kind = "attachment" -> {Att(<<"a">>), Att(<<"b">>), Null}
    [] schema.kind = "object" ->
         LET keys == {k \in ShapeKeys(schema.shape) :
                        IsWritable(ShapeType(schema.shape, k))}
             typeOf == [k \in keys |-> ShapeType(schema.shape, k)]
         IN  {Obj(f) : f \in UNION {MapsOver(D, typeOf) : D \in SUBSET keys}}
             \cup {Null}
    [] schema.kind = "collection" ->
         LET keys == IF top /\ schema.valueType.kind = "atom"
                     THEN KeySet ELSE DictKeySet
             typeOf == [k \in keys |-> schema.valueType]
         IN  {Obj(f) : f \in UNION {MapsOver(D, typeOf) : D \in SUBSET keys}}
             \cup {Null}

WriteValues(schema) == ValuesAt(schema, TRUE)

(***************************************************************************)
(* State                                                                   *)
(***************************************************************************)

VARIABLES
  schemaName,     \* the schema the behaviour reads and writes with
  store,          \* the replica's documents
  last,           \* the last write: its kind, path, data, and the store before
  viewPc,         \* observe(): "none", "reading" (read done), "open" (constructed)
  value,          \* LiveQuery.value, the snapshot
  observers,      \* LiveQuery.observers
  handles,        \* the number of subscribe() calls so far
  replicaEvents,  \* LiveQuery.replicaEvents: a reader, or 0 for undefined
  readers,        \* the number of event-stream readers acquired so far
  cancelled,      \* the readers that were cancelled
  queues,         \* for each reader, the events it holds unread
  ended,          \* the replica closed its event streams
  loops,          \* for each run() call, where its loop stands
  closing,        \* the number of close() calls awaiting the reader's cancel
  unsubscribing,  \* how many of them the last remaining observer's unsubscribe made
  events,         \* the number of events the replica has emitted
  lastFold        \* the last fold of handleDoc and its notifications

storeVars == <<schemaName, store, last>>
liveVars == <<viewPc, value, observers, handles, replicaEvents, readers,
              cancelled, queues, ended, loops, closing, unsubscribing, events,
              lastFold>>
vars == <<storeVars, liveVars>>

Schema == SchemaOf(schemaName)

NoOp == [op |-> "none", path |-> <<>>, data |-> Null, before |-> EmptyStore]
NoDoc == [path |-> <<>>, text |-> <<>>]
NoFold == [op |-> "none", doc |-> NoDoc, before |-> Null, observers |-> {},
           calls |-> <<>>]

\* No view has been requested
LiveIdle ==
  /\ viewPc = "none"
  /\ value = Null
  /\ observers = {}
  /\ handles = 0
  /\ replicaEvents = 0
  /\ readers = 0
  /\ cancelled = {}
  /\ queues = <<>>
  /\ ended = FALSE
  /\ loops = <<>>
  /\ closing = 0
  /\ unsubscribing = 0
  /\ events = 0
  /\ lastFold = NoFold

Init ==
  /\ schemaName \in SchemaNames
  /\ store = EmptyStore
  /\ last = NoOp
  /\ LiveIdle

\* schema.write({replica, author, path, data})
Write(path, data) ==
  /\ store' = WriteStore(Schema, store, path, data)
  /\ last' = [op |-> "write", path |-> path, data |-> data, before |-> store]
  /\ UNCHANGED <<schemaName, liveVars>>

HasMetadata(schema) ==
  /\ schema.kind = "object"
  /\ \E k \in ShapeKeys(schema.shape) : ShapeType(schema.shape, k).kind = "metadata"

\* string.write({replica, author, path, data}) at the path of an object whose
\* schema reads the document through metadata
RawWrite(path, data) ==
  /\ HasMetadata(Schema)
  /\ store' = WriteStore(string, store, path, data)
  /\ last' = [op |-> "raw", path |-> path, data |-> data, before |-> store]
  /\ UNCHANGED <<schemaName, liveVars>>

Next ==
  \/ \E path \in Paths, data \in WriteValues(Schema) : Write(path, data)
  \/ \E path \in Paths, data \in WriteValues(string) : RawWrite(path, data)

Spec == Init /\ [][Next]_vars

(***************************************************************************)
(* The live view: observe(path), LiveQuery                                 *)
(***************************************************************************)

\* The path observed, and the values written while it is observed
LivePath == PathO

\* A path beside the one read or observed that starts with the same characters
PathOT == PathO \o TITLE

\* The paths outside the observed one at which another writer sets documents
OutsidePaths == {PathOT, PathP}
LiveValues ==
  {Obj(TITLE :> Str(<<"a">>)), Obj(TITLE :> Str(<<"b">>)),
   Obj(SELF_SIGIL :> Str(<<"a">>)), Obj(TITLE :> Null)}

MaxEvents == 2
MaxHandles == 2
MaxReaders == 2
MaxClosing == 1

contentPrefix == getContentPrefix(LivePath)
rootPath == StripTrailingSlash(contentPrefix)

\* The events of the replica that are no upsert of a document the view reads:
\* a document of another format, and an event of another kind
OtherEvents ==
  {[kind |-> "success", format |-> "other",
    doc |-> [path |-> LivePath, text |-> <<"a">>]],
   [kind |-> "other", format |-> "es.5", doc |-> NoDoc]}

Idle == [pc |-> "done", on |-> 0, doc |-> NoDoc, prev |-> Null]
Reading(reader) == [pc |-> "read", on |-> reader, doc |-> NoDoc, prev |-> Null]

\* The replica emits the events evs: every reader that is not cancelled
\* receives them
Deliver(evs) ==
  queues' = [r \in DOMAIN queues |->
               IF r \in cancelled THEN queues[r] ELSE queues[r] \o evs]

\* schema.write at the observed path: the store applies the mutations and
\* emits one success event for each
LiveWrite(data) ==
  LET muts == WriteMutations(Schema, store, LivePath, data)
  IN  /\ ~ended
      /\ events + Len(muts) <= MaxEvents
      /\ Len(muts) > 0
      /\ store' = ApplyMutations(store, muts)
      /\ Deliver([i \in 1..Len(muts) |->
                    [kind |-> "success", format |-> "es.5",
                     doc |-> [path |-> muts[i].path, text |-> muts[i].text]]])
      /\ events' = events + Len(muts)
      /\ UNCHANGED <<schemaName, last, viewPc, value, observers, handles,
                     replicaEvents, readers, cancelled, ended, loops, closing, unsubscribing,
                     lastFold>>

\* Another writer sets the document at path, outside the observed path: the
\* store holds it and emits a success event for it
OutsideWrite(path, text) ==
  /\ ~ended
  /\ events < MaxEvents
  /\ store' = StoreSet(store, path, text)
  /\ Deliver(<<[kind |-> "success", format |-> "es.5",
                doc |-> [path |-> path, text |-> text]]>>)
  /\ events' = events + 1
  /\ UNCHANGED <<schemaName, last, viewPc, value, observers, handles,
                 replicaEvents, readers, cancelled, ended, loops, closing,
                 unsubscribing, lastFold>>

\* The replica emits an event that is no es.5 upsert
ReplicaEvent(ev) ==
  /\ ~ended
  /\ events < MaxEvents
  /\ Deliver(<<ev>>)
  /\ events' = events + 1
  /\ UNCHANGED <<storeVars, viewPc, value, observers, handles, replicaEvents,
                 readers, cancelled, ended, loops, closing, unsubscribing, lastFold>>

\* The replica closes: its event streams end
StreamEnd ==
  /\ ~ended
  /\ ended' = TRUE
  /\ UNCHANGED <<storeVars, viewPc, value, observers, handles, replicaEvents,
                 readers, cancelled, queues, loops, closing, unsubscribing, events, lastFold>>

\* observe(), up to the end of its initial read
ObserveRead ==
  /\ viewPc = "none"
  /\ value' \in ReadSet(Schema, store, contentPrefix)
  /\ viewPc' = "reading"
  /\ UNCHANGED <<storeVars, observers, handles, replicaEvents, readers,
                 cancelled, queues, ended, loops, closing, unsubscribing, events, lastFold>>

\* run(), up to its first await: a fresh reader, and a loop awaiting its
\* first read
Run ==
  /\ readers' = readers + 1
  /\ replicaEvents' = readers + 1
  /\ queues' = Append(queues, <<>>)
  /\ loops' = Append(loops, Reading(readers + 1))

\* observe(), from the end of its read: new LiveQuery(...)
ObserveConstruct ==
  /\ viewPc = "reading"
  /\ viewPc' = "open"
  /\ Run
  /\ UNCHANGED <<storeVars, value, observers, handles, cancelled, ended,
                 closing, unsubscribing, events, lastFold>>

\* A subscribe() that reads the store again when it reopens a closed view
SubscribeRefreshing ==
  /\ viewPc = "open"
  /\ handles < MaxHandles
  /\ handles' = handles + 1
  /\ observers' = observers \cup {handles + 1}
  /\ IF replicaEvents = 0
     THEN /\ readers < MaxReaders
          /\ Run
          /\ value' \in ReadSet(Schema, store, contentPrefix)
     ELSE UNCHANGED <<replicaEvents, readers, queues, loops, value>>
  /\ UNCHANGED <<storeVars, viewPc, cancelled, ended, closing, unsubscribing, events,
                 lastFold>>

\* live.subscribe(onChange); the observer is named by the number of the call
Subscribe ==
  /\ viewPc = "open"
  /\ handles < MaxHandles
  /\ handles' = handles + 1
  /\ observers' = observers \cup {handles + 1}
  /\ IF replicaEvents = 0
     THEN readers < MaxReaders /\ Run
     ELSE UNCHANGED <<replicaEvents, readers, queues, loops>>
  /\ UNCHANGED <<storeVars, viewPc, value, cancelled, ended, closing, unsubscribing, events,
                 lastFold>>

\* close(), up to its await: the observers are cleared and the reader, if
\* there is one, is told to cancel, which discards what it holds unread
CloseStart ==
  /\ closing < MaxClosing
  /\ closing' = closing + 1
  /\ observers' = {}
  /\ cancelled' = cancelled \cup ({replicaEvents} \ {0})
  /\ queues' = [r \in DOMAIN queues |->
                  IF r = replicaEvents THEN <<>> ELSE queues[r]]

\* live.close()
Close ==
  /\ viewPc = "open"
  /\ CloseStart
  /\ UNCHANGED <<storeVars, viewPc, value, handles, replicaEvents, readers,
                 ended, loops, unsubscribing, events, lastFold>>

\* The function subscribe() returned to observer o is called
Unsubscribe(o) ==
  /\ o \in 1..handles
  /\ IF observers \ {o} = {}
     THEN /\ CloseStart
          /\ unsubscribing' = IF observers = {o} THEN unsubscribing + 1
                              ELSE unsubscribing
     ELSE /\ observers' = observers \ {o}
          /\ UNCHANGED <<cancelled, queues, closing, unsubscribing>>
  /\ UNCHANGED <<storeVars, viewPc, value, handles, replicaEvents, readers,
                 ended, loops, events, lastFold>>

\* close(), from its await: this.replicaEvents = undefined
CloseFinish ==
  /\ closing > unsubscribing
  /\ closing' = closing - 1
  /\ replicaEvents' = 0
  /\ UNCHANGED <<storeVars, viewPc, value, observers, handles, readers,
                 cancelled, queues, ended, loops, unsubscribing, events,
                 lastFold>>

\* The same, for the close() the last remaining observer's unsubscribe
\* awaits: the unsubscribe function completes
UnsubscribeFinish ==
  /\ unsubscribing > 0
  /\ closing' = closing - 1
  /\ unsubscribing' = unsubscribing - 1
  /\ replicaEvents' = 0
  /\ UNCHANGED <<storeVars, viewPc, value, observers, handles, readers,
                 cancelled, queues, ended, loops, events, lastFold>>

\* while (this.replicaEvents): the loop reads again, or ends
Continue == IF replicaEvents = 0 THEN Idle ELSE Reading(replicaEvents)

\* The document handleDoc folds
Relevant(doc) == doc.path = rootPath \/ StartsWith(doc.path, contentPrefix)

\* What a loop does with the event it read
Received(ev) ==
  IF ev.kind \in {"success", "expire"}
  THEN IF ev.format # "es.5" THEN Idle
       ELSE IF Relevant(ev.doc)
            THEN [pc |-> "fold", on |-> 0, doc |-> ev.doc, prev |-> value]
            ELSE [pc |-> "next", on |-> 0, doc |-> NoDoc, prev |-> Null]
  ELSE Continue

\* The read a loop of run() awaits resolves: with done, when its reader was
\* cancelled or the stream ended, or with the next event
LoopRead(l) ==
  /\ l \in DOMAIN loops
  /\ loops[l].pc = "read"
  /\ LET r == loops[l].on
     IN  \/ /\ r \in cancelled \/ (ended /\ queues[r] = <<>>)
            /\ loops' = [loops EXCEPT ![l] = Idle]
            /\ UNCHANGED queues
         \/ /\ r \notin cancelled
            /\ queues[r] # <<>>
            /\ loops' = [loops EXCEPT ![l] = Received(Head(queues[r]))]
            /\ queues' = [queues EXCEPT ![r] = Tail(queues[r])]
  /\ UNCHANGED <<storeVars, viewPc, value, observers, handles, replicaEvents,
                 readers, cancelled, ended, closing, unsubscribing, events, lastFold>>

\* this.observers.forEach(o => o()): the calls each callback receives
Notify(obs, snapshot) == [o \in obs |-> <<snapshot>>]

\* The schema.reduce call of handleDoc
Fold(doc, prev) ==
  Reduce(Schema, doc, splitPath(Substring(doc.path, Len(contentPrefix))), prev)

\* handleDoc, from the await of schema.reduce: the snapshot is replaced and
\* the observers are notified
LoopFold(l) ==
  /\ l \in DOMAIN loops
  /\ loops[l].pc = "fold"
  /\ LET doc == loops[l].doc
         next == Fold(doc, loops[l].prev)
     IN  /\ value' = next
         /\ lastFold' = [op |-> "fold", doc |-> doc, before |-> value,
                         observers |-> observers,
                         calls |-> Notify(observers, next)]
  /\ loops' = [loops EXCEPT ![l] = [pc |-> "next", on |-> 0, doc |-> NoDoc,
                                    prev |-> Null]]
  /\ UNCHANGED <<storeVars, viewPc, observers, handles, replicaEvents, readers,
                 cancelled, queues, ended, closing, unsubscribing, events>>

\* run(), from the await of handleDoc: the loop condition
LoopNext(l) ==
  /\ l \in DOMAIN loops
  /\ loops[l].pc = "next"
  /\ loops' = [loops EXCEPT ![l] = Continue]
  /\ UNCHANGED <<storeVars, viewPc, value, observers, handles, replicaEvents,
                 readers, cancelled, queues, ended, closing, unsubscribing, events, lastFold>>

InitLive ==
  /\ schemaName = "object"
  /\ store = EmptyStore
  /\ last = NoOp
  /\ LiveIdle

NextLive ==
  \/ \E data \in LiveValues : LiveWrite(data)
  \/ \E ev \in OtherEvents : ReplicaEvent(ev)
  \/ \E path \in OutsidePaths : OutsideWrite(path, <<"b">>)
  \/ StreamEnd
  \/ ObserveRead
  \/ ObserveConstruct
  \/ Subscribe
  \/ Close
  \/ \E o \in 1..MaxHandles : Unsubscribe(o)
  \/ CloseFinish
  \/ UnsubscribeFinish
  \/ \E l \in 1..MaxReaders : LoopRead(l)
  \/ \E l \in 1..MaxReaders : LoopFold(l)
  \/ \E l \in 1..MaxReaders : LoopNext(l)

SpecLive == InitLive /\ [][NextLive]_vars

(***************************************************************************)
(* The inverse lookup: posts at two paths that link and unlink each other  *)
(***************************************************************************)

FindPaths == {PathO, PathP}

\* The writes of the posts: a title, a link, an unlink
LinkValues ==
  {Obj(TITLE :> Str(<<"a">>))}
  \cup {Obj(RELATED :> Obj(k :> v)) : k \in KeySet, v \in {Bool(TRUE), Null}}

\* The optional pathStartsWith filters of the lookups
FindFilters == {<<>>, <<PathO>>, <<PathP>>, <<PathO \o <<"/">> >>}

\* The collection prefixes of the lookups
FindPrefixes == {<<"/">> \o RELATED, <<"/", "x">>, <<>>}

InitFind ==
  /\ schemaName = "post"
  /\ store = EmptyStore
  /\ last = NoOp
  /\ LiveIdle

NextFind == \E path \in FindPaths, data \in LinkValues : Write(path, data)

SpecFind == InitFind /\ [][NextFind]_vars

(***************************************************************************)
(* Values at two paths of which one is a string prefix of the other        *)
(***************************************************************************)

SiblingPaths == {PathO, PathOT}

InitSibling ==
  /\ schemaName \in {"string", "object"}
  /\ store = EmptyStore
  /\ last = NoOp
  /\ LiveIdle

NextSibling ==
  \E path \in SiblingPaths, data \in WriteValues(Schema) : Write(path, data)

SpecSibling == InitSibling /\ [][NextSibling]_vars

(***************************************************************************)
(* Writes to a store that rejects some of the mutations                    *)
(***************************************************************************)

\* requireWriteSuccess, over the mutations of one write of which the store
\* rejected those at the indices rejected: it throws for a rejected
\* mutation whose outcome it is given
requireWriteSuccess(muts, rejected) == \E i \in rejected : muts[i].checked

\* The mutations the store did not reject, from index i
RECURSIVE Accepted(_, _, _)
Accepted(muts, rejected, i) ==
  IF i > Len(muts) THEN <<>>
  ELSE (IF i \in rejected THEN <<>> ELSE <<muts[i]>>)
       \o Accepted(muts, rejected, i + 1)

\* schema.write({path, data}) when the store rejects the mutations at the
\* indices rejected: it throws or completes
WriteRejecting(path, data, rejected) ==
  LET muts == WriteMutations(Schema, store, path, data)
  IN  /\ rejected \subseteq 1..Len(muts)
      /\ store' = ApplyMutations(store, Accepted(muts, rejected, 1))
      /\ last' = [op |-> IF requireWriteSuccess(muts, rejected)
                         THEN "threw" ELSE "write",
                  path |-> path, data |-> data, before |-> store,
                  rejected |-> {muts[i].path : i \in rejected}]
      /\ UNCHANGED <<schemaName, liveVars>>

InitReject ==
  /\ schemaName \in {"string", "object", "set", "attachment"}
  /\ store = EmptyStore
  /\ last = NoOp
  /\ LiveIdle

NextReject ==
  \E path \in Paths, data \in WriteValues(Schema), rejected \in SUBSET (1..3) :
    WriteRejecting(path, data, rejected)

SpecReject == InitReject /\ [][NextReject]_vars

(***************************************************************************)
(* Writes through a format wrapper                                         *)
(***************************************************************************)

\* parts.join('/')
RECURSIVE join(_)
join(parts) ==
  IF parts = <<>> THEN <<>>
  ELSE IF Len(parts) = 1 THEN parts[1]
  ELSE parts[1] \o <<"/">> \o join(Tail(parts))

\* An ApplicationFormat
ApplicationFormat(namespace, major, minor) ==
  [namespace |-> namespace, major |-> major, minor |-> minor]

\* `${format.major}.${format.minor}`
VersionText(format) == NatText(format.major) \o <<".">> \o NatText(format.minor)

\* The path AppFormatType.write hands to the inner schema
AppFormatPath(format, prefix, path) ==
  LET inner == join(splitPath(prefix) \o splitPath(path))
  IN  <<"/">> \o format.namespace \o <<"/">> \o VersionText(format)
        \o <<"/">> \o inner

\* AppFormatType.getContentPrefix()
AppFormatContentPrefix(format) ==
  <<"/">> \o format.namespace \o <<"/">> \o NatText(format.major) \o <<".">>

\* appFormat(...).read({path}) when the store's query returns the content
\* documents in the order contents: EsType.read with the wrapper's content
\* prefix, which does not depend on path
AppFormatRead(wrapper, st, path, contents) ==
  LET contentsPrefix == AppFormatContentPrefix(wrapper.format)
      root == StripTrailingSlash(contentsPrefix)
  IN  FoldDocs(wrapper, st, contentsPrefix,
               (IF root \in DOMAIN st THEN <<root>> ELSE <<>>) \o contents,
               Null)

\* The values the read can return, over the orders of the content documents
AppFormatReadSet(wrapper, st, path) ==
  {AppFormatRead(wrapper, st, path, contents) :
     contents \in Orders(PathsStartingWith(st, AppFormatContentPrefix(wrapper.format)))}

\* The formats, prefixes and paths of the wrappers that write to the store
MaxMinor == 1
Formats == {ApplicationFormat(<<"n">>, 1, minor) : minor \in 0..MaxMinor}
Prefixes == {<<>>, <<"/", "q", "/">>}
FormatPaths == {<<"/">>, <<"q", "/">>}

\* appFormat(schema, {format, prefix}).write({path, data})
AppFormatWrite(format, prefix, path, data) ==
  LET inner == AppFormatPath(format, prefix, path)
  IN  /\ store' = ApplyMutations(store, WriteMutations(Schema, store, inner, data))
      /\ last' = [op |-> "formatWrite", path |-> path, data |-> data,
                  before |-> store, format |-> format, prefix |-> prefix,
                  inner |-> inner]
      /\ UNCHANGED <<schemaName, liveVars>>

InitFormat ==
  /\ schemaName \in {"boolean"}
  /\ store = EmptyStore
  /\ last = NoOp
  /\ LiveIdle

NextFormat ==
  \E format \in Formats, prefix \in Prefixes, path \in FormatPaths,
     data \in WriteValues(Schema) :
    AppFormatWrite(format, prefix, path, data)

SpecFormat == InitFormat /\ [][NextFormat]_vars

(***************************************************************************)
(* An open view with one loop, seen each time it has handled every event   *)
(* of a write                                                              *)
(***************************************************************************)

\* The loop of run() handles the events of the documents docs, one after
\* the other: the snapshot after the last of them
RECURSIVE HandleDocs(_, _)
HandleDocs(docs, snapshot) ==
  IF docs = <<>> THEN snapshot
  ELSE HandleDocs(Tail(docs),
                  IF Relevant(Head(docs)) THEN Fold(Head(docs), snapshot)
                  ELSE snapshot)

\* schema.write at the observed path, and the loop's handling of the events
\* the store emits for it
ObservedWrite(data) ==
  LET muts == WriteMutations(Schema, store, LivePath, data)
      docs == [i \in 1..Len(muts) |-> [path |-> muts[i].path, text |-> muts[i].text]]
  IN  /\ store' = ApplyMutations(store, muts)
      /\ last' = [op |-> "write", path |-> LivePath, data |-> data,
                  before |-> store]
      /\ value' = HandleDocs(docs, value)
      /\ lastFold' =
           IF docs = <<>> THEN lastFold
           ELSE [op |-> "fold", doc |-> docs[Len(docs)],
                 before |-> HandleDocs(SubSeq(docs, 1, Len(docs) - 1), value),
                 observers |-> observers,
                 calls |-> Notify(observers, HandleDocs(docs, value))]
      /\ UNCHANGED <<schemaName, viewPc, observers, handles, replicaEvents,
                     readers, cancelled, queues, ended, loops, closing,
                     unsubscribing, events>>

\* schema.observe({path}) on an empty store has returned: the view is open
\* and its loop awaits the first event
InitObserved ==
  /\ schemaName \in {"object", "nested", "set", "dict"}
  /\ store = EmptyStore
  /\ last = NoOp
  /\ viewPc = "open"
  /\ value = Null
  /\ observers = {}
  /\ handles = 0
  /\ replicaEvents = 1
  /\ readers = 1
  /\ cancelled = {}
  /\ queues = << <<>> >>
  /\ ended = FALSE
  /\ loops = <<Reading(1)>>
  /\ closing = 0
  /\ unsubscribing = 0
  /\ events = 0
  /\ lastFold = NoFold

NextObserved == \E data \in WriteValues(Schema) : ObservedWrite(data)

SpecObserved == InitObserved /\ [][NextObserved]_vars

(***************************************************************************)
(* A write of an object or a collection, child by child: every child write *)
(* is issued at once and settles on its own; Promise.all settles the call  *)
(***************************************************************************)

\* The most mutations a write of the model issues
MaxChildren == 3

\* Promise.all over the children whose states are given: rejected as soon as
\* one child throws, fulfilled once every child is done
PromiseAll(states) ==
  IF \E i \in DOMAIN states : states[i] = "threw" THEN "threw"
  ELSE IF \A i \in DOMAIN states : states[i] = "done" THEN "ok"
  ELSE "pending"

\* No write is in flight: none was made, or every child of the last settled
NoneInFlight ==
  last.op = "parallel" => \A i \in DOMAIN last.states : last.states[i] # "issued"

\* schema.write({path, data}), up to its await of Promise.all: every child
\* write has been issued
WriteStart(path, data) ==
  LET muts == WriteMutations(Schema, store, path, data)
      states == [i \in 1..Len(muts) |-> "issued"]
  IN  /\ NoneInFlight
      /\ last' = [op |-> "parallel", path |-> path, data |-> data,
                  before |-> store, muts |-> muts, states |-> states,
                  result |-> PromiseAll(states)]
      /\ UNCHANGED <<schemaName, store, liveVars>>

\* The store answers the child write i, with a rejection or not; the child
\* throws when requireWriteSuccess is given a rejection.  The call settles
\* the first time Promise.all does
ChildSettle(i, rejected) ==
  /\ last.op = "parallel"
  /\ i \in DOMAIN last.states
  /\ last.states[i] = "issued"
  /\ LET states == [last.states EXCEPT
                      ![i] = IF requireWriteSuccess(last.muts, IF rejected THEN {i} ELSE {})
                             THEN "threw" ELSE "done"]
     IN  last' = [last EXCEPT !.states = states,
                              !.result = IF last.result = "pending"
                                         THEN PromiseAll(states)
                                         ELSE last.result]
  /\ store' = IF rejected THEN store
              ELSE StoreSet(store, last.muts[i].path, last.muts[i].text)
  /\ UNCHANGED <<schemaName, liveVars>>

InitParallel ==
  /\ schemaName \in {"object", "set"}
  /\ store = EmptyStore
  /\ last = NoOp
  /\ LiveIdle

NextParallel ==
  \/ \E path \in Paths, data \in WriteValues(Schema) : WriteStart(path, data)
  \/ \E i \in 1..MaxChildren, rejected \in BOOLEAN : ChildSettle(i, rejected)

SpecParallel == InitParallel /\ [][NextParallel]_vars

(***************************************************************************)
(* Writes of single entries of a collection, under any key                 *)
(***************************************************************************)

\* The keys written: the empty key, and keys with "/" and with "%"
EntryKeys == {<<>>, <<"k">>, <<"/", "p">>, <<"%">>, <<"k", "/">>}

InitKeys ==
  /\ schemaName = "set"
  /\ store = EmptyStore
  /\ last = NoOp
  /\ LiveIdle

\* schema.write({path, data: {[key]: val}})
NextKeys ==
  \E path \in Paths, key \in EntryKeys,
     val \in ValuesAt(Schema.valueType, FALSE) :
    Write(path, Obj(key :> val))

SpecKeys == InitKeys /\ [][NextKeys]_vars

(***************************************************************************)
(* reduce, applied to one document after another: an object schema folds   *)
(* documents at declared and at undeclared paths into the variable value   *)
(***************************************************************************)

UNDECLARED == <<"x">>

\* The paths of the documents folded, beneath the path read: the root, a
\* field, an undeclared key, a field of the nested object, an undeclared key
\* of the nested object, and a path beneath a field's document
ReducePaths ==
  {PathO,
   PathO \o <<"/">> \o TITLE,
   PathO \o <<"/">> \o UNDECLARED,
   PathO \o <<"/">> \o NESTED \o <<"/">> \o DESCRIPTION,
   PathO \o <<"/">> \o NESTED \o <<"/">> \o UNDECLARED,
   PathO \o <<"/">> \o TITLE \o <<"/">> \o UNDECLARED}

ReduceTexts == {<<>>, <<"a">>, <<"b">>}

\* pathComponents, as read computes them for a document at path
ComponentsOf(path) == splitPath(Substring(path, Len(getContentPrefix(PathO))))

\* this.reduce({doc, prev: result, pathComponents}) of the loop of read: the
\* result replaces the value, unless reduce throws
ReduceDoc(doc) ==
  LET result == Reduce(Schema, doc, ComponentsOf(doc.path), value)
  IN  /\ value' = IF IsErr(result) THEN value ELSE result
      /\ lastFold' = [op |-> IF IsErr(result) THEN "threw" ELSE "reduce",
                      doc |-> doc, before |-> value, observers |-> {},
                      calls |-> <<>>]
      /\ UNCHANGED <<storeVars, viewPc, observers, handles, replicaEvents,
                     readers, cancelled, queues, ended, loops, closing,
                     unsubscribing, events>>

\* What replica.getAttachment returns for a document
AttachmentOutcomes == {"error", "absent", "held"}

InitReduce ==
  /\ schemaName \in ObjectNames \cup {"attachment"}
  /\ store = EmptyStore
  /\ last = NoOp
  /\ LiveIdle

NextReduce ==
  \/ /\ Schema.kind = "object"
     /\ \E path \in ReducePaths, text \in ReduceTexts :
          ReduceDoc([path |-> path, text |-> text])
  \/ /\ Schema.kind = "attachment"
     /\ \E path \in {PathO, PathP}, text \in ReduceTexts,
           outcome \in AttachmentOutcomes :
          ReduceDoc([path |-> path, text |-> text, attachment |-> outcome])

SpecReduce == InitReduce /\ [][NextReduce]_vars

(***************************************************************************)
(* Properties of write followed by read                                    *)
(***************************************************************************)

\* The values read(path) can return now, and could return before the last
\* operation
ReadNow == ReadSet(Schema, store, last.path)
ReadBefore == ReadSet(Schema, last.before, last.path)

\* The documents at path or strictly under path + "/"
PathsAtOrUnder(st, path) ==
  {p \in DOMAIN st : p = path \/ StartsWith(p, path \o <<"/">>)}

\* C1: for every built-in atomic type and every non-null value x of it, the
\* empty string, zero and false included, write(path, x) on an empty store
\* followed by read(path) returns x.
C1_AtomRoundTrip ==
  (/\ schemaName \in AtomNames
   /\ last.op = "write"
   /\ last.before = EmptyStore
   /\ ~IsNull(last.data))
  => ReadNow = {last.data}

\* A value with no null entry and no empty object or map in it
RECURSIVE Populated(_)
Populated(v) ==
  /\ ~IsNull(v)
  /\ IsObj(v) => (Keys(v) # {} /\ \A k \in Keys(v) : Populated(v.obj[k]))

\* C2: for every composite schema (object, partial object, nested object,
\* set, dict of objects) and every value of its write type without null
\* entries, write(path, v) on an empty store followed by read(path) returns v.
C2_CompositeRoundTrip ==
  (/\ schemaName \in {"object", "nested", "set", "dict", "post"}
   /\ last.op = "write"
   /\ last.before = EmptyStore
   /\ Populated(last.data))
  => ReadNow = {last.data}

\* The type of the field or entry key of an object or collection schema
FieldType(schema, key) ==
  IF schema.kind = "object" THEN ShapeType(schema.shape, key) ELSE schema.valueType

\* Path p belongs to the field or entry key of the value stored at path
InField(schema, path, key, p) ==
  IF schema.kind = "object" /\ key = SELF_SIGIL THEN p = path
  ELSE LET segment == IF schema.kind = "object" THEN key
                      ELSE encodeURIComponent(key)
           fieldPath == path \o <<"/">> \o segment
       IN  p = fieldPath \/ StartsWith(p, fieldPath \o <<"/">>)

\* The fields or keys a read can show that the last written value leaves out
AbsentKeys ==
  ((IF Schema.kind = "object" THEN ShapeKeys(Schema.shape) ELSE {})
   \cup UNION {Keys(r) : r \in ReadNow \cup ReadBefore}) \ Keys(last.data)

\* C3: a write of a non-null object or collection value mutates no document
\* of a field or key absent from the value, every such field or key reads
\* back as before, and the supplied fields read back with their new values.
C3_PartialUpdate ==
  (/\ Schema.kind \in {"object", "collection"}
   /\ last.op = "write"
   /\ IsObj(last.data))
  => /\ \A p \in DOMAIN store \cup DOMAIN last.before :
          (\A k \in Keys(last.data) : ~InField(Schema, last.path, k, p))
          => (p \in DOMAIN store /\ p \in DOMAIN last.before
              /\ store[p] = last.before[p])
     /\ \A k \in AbsentKeys :
          {Get(r, k) : r \in ReadNow} = {Get(r, k) : r \in ReadBefore}
     /\ \A k \in Keys(last.data) :
          FieldType(Schema, k).kind = "atom"
          => \A r \in ReadNow : Get(r, k) = last.data.obj[k]

\* The last write supplied exactly the field k, as null, over a stored object
\* b that has k and another populated field
DeletesField(k, b) ==
  /\ schemaName \in ObjectNames
  /\ last.op = "write"
  /\ IsObj(last.data)
  /\ Keys(last.data) = {k}
  /\ IsNull(last.data.obj[k])
  /\ ReadBefore = {b}
  /\ k \in Keys(b)
  /\ Keys(b) # {k}

\* C4: writing an object value whose only supplied field k is null, over a
\* stored object that has k and another populated field, makes read return
\* the object without k and with every other field unchanged, for "@self" as
\* for sub-path fields.
C4_FieldDeletion ==
  schemaName \in ObjectNames
  => \A k \in ShapeKeys(Schema.shape) : \A b \in ReadBefore :
       DeletesField(k, b) => ReadNow = {Without(b, k)}

C4_Witness ==
  /\ schemaName = "object"
  /\ DeletesField(SELF_SIGIL, CHOOSE b \in ReadBefore : TRUE)
  /\ ReadNow = {Obj(TITLE :> Str(<<"b">>))}

\* C5: for any object schema and any path at which a value was written
\* before, write(path, null) clears the root document and every document
\* under path + "/", and read(path) then returns null.
C5_WholeValueDeletion ==
  (/\ schemaName \in ObjectNames
   /\ last.op = "write"
   /\ IsNull(last.data)
   /\ \E p \in PathsAtOrUnder(last.before, last.path) : last.before[p] # <<>>)
  => /\ \A p \in PathsAtOrUnder(store, last.path) : store[p] = <<>>
     /\ ReadNow = {Null}

\* No empty object or map at any depth
RECURSIVE NoEmptyContainer(_)
NoEmptyContainer(v) ==
  IsObj(v) => (Keys(v) # {} /\ \A k \in Keys(v) : NoEmptyContainer(v.obj[k]))

\* The values obtained by folding the documents of the last write, in the
\* order written, into a value read before it
FoldedIncrementally ==
  LET muts == WriteMutations(Schema, last.before, last.path, last.data)
  IN  {FoldDocs(Schema, store, getContentPrefix(last.path),
                [i \in 1..Len(muts) |-> muts[i].path], r) : r \in ReadBefore}

\* Every document at or under the last path is cleared
AllCleared == \A p \in PathsAtOrUnder(store, last.path) : store[p] = <<>>

\* C6: a value folded from documents never contains an empty map or an empty
\* object; a collection that lost its last key and an object that lost its
\* last populated field are null, and the null propagates to the container.
C6_RemoveIfVacated ==
  last.op = "write"
  => /\ \A r \in ReadNow \cup FoldedIncrementally : NoEmptyContainer(r)
     /\ (Schema.kind \in {"object", "collection"} /\ ~HasMetadata(Schema)
         /\ AllCleared)
        => ReadNow \cup FoldedIncrementally = {Null}

C6_Witness ==
  /\ schemaName = "post"
  /\ last.op = "write"
  /\ last.data = Obj(RELATED :> Obj(KeyList[1] :> Null))
  /\ ReadBefore = {Obj(RELATED :> Obj(KeyList[1] :> Bool(TRUE)))}
  /\ FoldedIncrementally = {Null}
  /\ ReadNow = {Null}

(***************************************************************************)
(* Properties of findByCollectionKey                                       *)
(***************************************************************************)

\* The prefixes of the stored paths
AllPrefixes == UNION {{SliceTo(p, n) : n \in 0..Len(p)} : p \in DOMAIN store}

MatchesFilter(p, pathStartsWith) ==
  pathStartsWith = <<>> \/ StartsWith(p, pathStartsWith[1])

\* C7: findByCollectionKey(key, {collectionPrefix: s, filter}) returns exactly
\* the paths p such that the store holds the path p + s + "/" +
\* percent-encode(key) and that path matches the filter.
C7_FindReturnsOwners ==
  \A key \in KeySet, s \in FindPrefixes, f \in FindFilters :
    findByCollectionKey(store, key, <<s>>, f)
      = {p \in AllPrefixes :
           LET stored == p \o s \o <<"/">> \o encodeURIComponent(key)
           IN  stored \in DOMAIN store /\ MatchesFilter(stored, f)}

C7_Witness ==
  /\ findByCollectionKey(store, KeyList[1], << <<"/">> \o RELATED >>,
                         << PathO \o <<"/">> >>) = {PathO}
  /\ findByCollectionKey(store, KeyList[1], << <<"/">> \o RELATED >>, <<>>)
       = {PathO, PathP}
  /\ PathO \o <<"/">> \o TITLE \in DOMAIN store

\* The last write removed key from the collection of the post at its path,
\* which contained it
RemovesKey(key) ==
  /\ last.op = "write"
  /\ last.data = Obj(RELATED :> Obj(key :> Null))
  /\ \A r \in ReadBefore : key \in Keys(Get(r, RELATED))

\* C8: after an owner's collection key has been removed (written as null),
\* findByCollectionKey for that key no longer returns the owner's path.
C8_FindReflectsMembership ==
  \A key \in KeySet :
    RemovesKey(key)
    => last.path \notin findByCollectionKey(store, key, << <<"/">> \o RELATED >>, <<>>)

\* C9: without a collectionPrefix, findByCollectionKey returns the paths of
\* the collections: c for every stored path c + "/" + percent-encode(key)
\* that matches the filter.
C9_FindWithoutPrefix ==
  \A key \in KeySet, f \in FindFilters :
    findByCollectionKey(store, key, <<>>, f)
      = {c \in AllPrefixes :
           LET stored == c \o <<"/">> \o encodeURIComponent(key)
           IN  stored \in DOMAIN store /\ MatchesFilter(stored, f)}

(***************************************************************************)
(* The live view's notifications                                           *)
(***************************************************************************)

\* C10: when the view folds the document of a store event at or under the
\* observed path, the snapshot becomes the fold of that document into the
\* snapshot it replaces, and every callback registered at that moment, and
\* no other, is called exactly once, with the new snapshot.
C10_LiveNotification ==
  lastFold.op = "fold" =>
    /\ value = Fold(lastFold.doc, lastFold.before)
    /\ DOMAIN lastFold.calls = lastFold.observers
    /\ \A o \in lastFold.observers : lastFold.calls[o] = <<value>>

(***************************************************************************)
(* The live view's lifecycle                                               *)
(***************************************************************************)

\* live.isClosed
isClosed == replicaEvents = 0

\* C11: a view is open from its construction; when the unsubscribe function
\* of its last remaining observer completes, the view is closed and the
\* reader it held is cancelled; unsubscribing while other observers remain
\* leaves the view as open as it was.
C11_OpenUntilLastUnsubscribe ==
  [][/\ ObserveConstruct => ~isClosed'
     /\ UnsubscribeFinish =>
          /\ isClosed'
          /\ replicaEvents # 0 => replicaEvents \in cancelled'
     /\ \A o \in 1..MaxHandles :
          (Unsubscribe(o) /\ observers' # {}) => replicaEvents' = replicaEvents
    ]_vars

\* The read loop l awaits, on the reader the view holds, resolves with the
\* end of the stream
ReadsEndOfStream(l) ==
  /\ LoopRead(l)
  /\ loops[l].on = replicaEvents
  /\ replicaEvents \notin cancelled
  /\ ended
  /\ queues[replicaEvents] = <<>>

\* Every loop of the view has returned
NoLoop == \A l \in DOMAIN loops : loops[l].pc = "done"

\* C12: when the event stream signals its end to an open view, the view
\* becomes closed, and a subscribe() after that acquires a reader again.
C12_EndOfStreamCloses ==
  [][/\ \A l \in 1..MaxReaders : ReadsEndOfStream(l) => isClosed'
     /\ (Subscribe /\ ended /\ NoLoop) => readers' = readers + 1
    ]_vars

\* The read loop l awaits, on the reader the view holds, resolves with a
\* success or expire event whose document has another format than es.5
ReadsOtherFormat(l) ==
  /\ LoopRead(l)
  /\ loops[l].on = replicaEvents
  /\ replicaEvents \notin cancelled
  /\ queues[replicaEvents] # <<>>
  /\ Head(queues[replicaEvents]).kind \in {"success", "expire"}
  /\ Head(queues[replicaEvents]).format # "es.5"

\* C13: when an open view receives a success or expire event whose document
\* format is not the recognised one, the snapshot stays as it is, no
\* observer is notified, and the view becomes closed.
C13_OtherFormatCloses ==
  [][\A l \in 1..MaxReaders :
       ReadsOtherFormat(l) =>
         /\ value' = value
         /\ lastFold' = lastFold
         /\ isClosed'
    ]_vars

(***************************************************************************)
(* Properties of reduce                                                    *)
(***************************************************************************)

\* The path components name nothing the schema declares: an undeclared key
\* of an object, at the top or in a nested object, or a path beneath an
\* atomic field's document
RECURSIVE Undeclared(_, _)
Undeclared(schema, pathComponents) ==
  CASE schema.kind = "atom" -> pathComponents # <<>>
    [] schema.kind = "object" ->
         LET attrKey == IF pathComponents = <<>> THEN SELF_SIGIL
                        ELSE Head(pathComponents)
         IN  \/ attrKey \notin ShapeKeys(schema.shape)
             \/ /\ pathComponents # <<>>
                /\ Undeclared(ShapeType(schema.shape, attrKey),
                              Tail(pathComponents))
    [] OTHER -> FALSE

\* C14: for an object schema and any previous value, reducing a document
\* whose path the schema does not declare returns the previous value and
\* throws nothing.
C14_UnknownDocumentTolerance ==
  (/\ lastFold.op \in {"reduce", "threw"}
   /\ Undeclared(Schema, ComponentsOf(lastFold.doc.path)))
  => /\ lastFold.op = "reduce"
     /\ value = lastFold.before

(***************************************************************************)
(* Properties of read                                                      *)
(***************************************************************************)

\* The orders in which read(path) can fold the documents of the store
ReadOrders(path) ==
  {FoldedPaths(store, path, contents) :
     contents \in Orders(PathsStartingWith(store, getContentPrefix(path)))}

\* C15: read(path) folds the document at path first, then only documents
\* whose path starts with path + "/": no document at a path that merely has
\* path as a string prefix, and the root document at most once.
C15_ReadFoldsRootThenContents ==
  \A path \in SiblingPaths : \A ps \in ReadOrders(path) :
    \A i \in 1..Len(ps) :
      /\ ps[i] = path => i = 1
      /\ ps[i] = path \/ StartsWith(ps[i], path \o <<"/">>)

(***************************************************************************)
(* Properties of failures                                                  *)
(***************************************************************************)

\* C16: if the store rejects a mutation a write issues (a set of an atom or
\* of an attachment, or a wipe issued for null), the write fails instead of
\* completing.
C16_RejectedWriteFails ==
  (last.op # "none" /\ last.rejected # {}) => last.op = "threw"

\* C17: when getAttachment cannot supply the attachment of the document (it
\* returns an error, or nothing), the attachment's reduce throws and does
\* not return null.
C17_AttachmentUnavailableThrows ==
  (/\ schemaName = "attachment"
   /\ lastFold.op \in {"reduce", "threw"}
   /\ lastFold.doc.attachment \in {"error", "absent"})
  => lastFold.op = "threw"

(***************************************************************************)
(* Properties of the format wrapper                                        *)
(***************************************************************************)

\* C18: a write through a format wrapper with namespace n, version
\* major.minor and prefix q, at path p, reaches the inner schema at the path
\* made of the segments n, major.minor, those of q and those of p, joined
\* by single slashes after a leading slash, whatever versions the store
\* already holds.
C18_FormatWrapperWritePath ==
  last.op = "formatWrite" =>
    last.inner = <<"/">> \o join(<<last.format.namespace, VersionText(last.format)>>
                                   \o splitPath(last.prefix)
                                   \o splitPath(last.path))

(***************************************************************************)
(* Properties of the events a live view handles                            *)
(***************************************************************************)

\* The path is the observed path or lies under it
UnderLivePath(path) == path = LivePath \/ StartsWith(path, LivePath \o <<"/">>)

\* C19: an event whose document is neither at the observed path nor under
\* it, a path beside it that starts with the same characters included,
\* leaves the snapshot as it was and reaches no observer.
C19_OutsideEventIgnored ==
  (lastFold.op = "fold" /\ ~UnderLivePath(lastFold.doc.path))
  => /\ value = lastFold.before
     /\ \A o \in DOMAIN lastFold.calls : lastFold.calls[o] = <<>>

\* The loops of run() that await a read of the reader
ReadingLoops(reader) ==
  {l \in DOMAIN loops : loops[l].pc = "read" /\ loops[l].on = reader}

\* C20: at no time do two loops of run() read the event stream of the view,
\* whatever the order of close(), subscribe() and the folds in flight.
C20_SingleLoop ==
  \A reader \in 1..readers :
    reader \notin cancelled => Cardinality(ReadingLoops(reader)) <= 1

(***************************************************************************)
(* Properties that relate the view, the fold and read                      *)
(***************************************************************************)

\* C21: once an open view has handled every event of the writes made since
\* observe(path), its snapshot is a value that read(path) returns on the
\* store as it then is.
C21_ViewAgreesWithRead ==
  last.op = "write" => value \in ReadSet(Schema, store, LivePath)

\* C22: the documents of the store, which lie at pairwise distinct paths and
\* of which some have empty text, fold from null to one value, whatever the
\* order in which the store enumerates the content documents.
C22_OrderIndependent ==
  \A path \in Paths : Cardinality(ReadSet(Schema, store, path)) = 1

\* The entry under key of the dict value v has the field f with the value x
HasField(v, key, f, x) ==
  /\ IsObj(v)
  /\ key \in DOMAIN v.obj
  /\ IsObj(v.obj[key])
  /\ f \in DOMAIN v.obj[key].obj
  /\ v.obj[key].obj[f] = x

\* C23: in a dict whose entries are objects, folding an empty-text document
\* of one field of an entry leaves in the entry every other field it had.
C23_EmptyTextClearsOwnField ==
  (schemaName = "dict" /\ lastFold.op = "fold" /\ lastFold.doc.text = <<>>) =>
    LET comps == ComponentsOf(lastFold.doc.path)
        key == decodeURIComponent(comps[1]).val
        entry == Get(lastFold.before, key)
    IN  IsObj(entry) =>
          \A f \in DOMAIN entry.obj \ {comps[2]} :
            HasField(value, key, f, entry.obj[f])

(***************************************************************************)
(* Properties of the child writes of a write                               *)
(***************************************************************************)

\* The path at which a write of an object or a collection at path writes the
\* field or entry k
ChildPath(schema, path, k) ==
  IF schema.kind = "collection" THEN path \o <<"/">> \o encodeURIComponent(k)
  ELSE IF k = SELF_SIGIL THEN path
  ELSE path \o <<"/">> \o k

\* C24: a write of an object or a collection has issued a child write for
\* every field or entry it was given, and it has not completed, with success
\* or with failure, while one of its child writes has yet to complete.
C24_WriteAwaitsEveryChild ==
  last.op = "parallel" =>
    /\ IsObj(last.data) =>
         \A k \in DOMAIN last.data.obj :
           \E i \in DOMAIN last.muts :
             last.muts[i].path = ChildPath(Schema, last.path, k)
    /\ last.result # "pending" =>
         \A i \in DOMAIN last.states : last.states[i] # "issued"

(***************************************************************************)
(* Properties of reopening a view                                          *)
(***************************************************************************)

\* The loop l reads, from a reader that a subscribe() acquired, an event of
\* a document that the view folds
ReadsAfterReopen(l) ==
  /\ LoopRead(l)
  /\ loops[l].on >= 2
  /\ loops[l].on \notin cancelled
  /\ queues[loops[l].on] # <<>>
  /\ Head(queues[loops[l].on]).kind \in {"success", "expire"}
  /\ Head(queues[loops[l].on]).format = "es.5"
  /\ Relevant(Head(queues[loops[l].on]).doc)

C26_KeyRoundTrip ==
  (last.op = "write" /\ IsObj(last.data)) =>
    \A key \in DOMAIN last.data.obj :
      LET rawKey == encodeURIComponent(key)
      IN  /\ splitPath(rawKey) = <<rawKey>>
          /\ \A other \in EntryKeys \ {key} : encodeURIComponent(other) # rawKey
          /\ ~IsNull(last.data.obj[key]) =>
               \A v \in ReadSet(Schema, store, last.path) :
                 Prop(v, key) = last.data.obj[key]

(***************************************************************************)
(* Properties of observers and of the updates a view receives              *)
(***************************************************************************)

\* C27: once every subscribe(), unsubscribe and close() call has returned,
\* a view that holds a registered observer is open: it has a reader, which
\* was not cancelled, to consume events from.
C27_NoObserverStranded ==
  (viewPc = "open" /\ closing = 0 /\ observers # {}) =>
    /\ ~isClosed
    /\ replicaEvents \notin cancelled

\* The view was never closed, and its loop has handled every event the
\* replica emitted to its reader and awaits the next
CaughtUp ==
  /\ viewPc = "open"
  /\ readers = 1
  /\ replicaEvents = 1
  /\ cancelled = {}
  /\ closing = 0
  /\ queues[1] = <<>>
  /\ loops[1].pc = "read"

\* C28: every write the store applies after the initial read of observe()
\* reaches the snapshot: once the loop has handled every event, the snapshot
\* is a value read returns on the store, also when a write was applied
\* before the view acquired its reader.
C28_NoUpdateLost ==
  CaughtUp => value \in ReadSet(Schema, store, LivePath)

(***************************************************************************)
(* Properties of reads through the format wrapper                          *)
(***************************************************************************)

\* C29: a write through a format wrapper at one path leaves what a read
\* through the wrapper returns at every other path as it was.
C29_FormatPathIsolation ==
  last.op = "formatWrite" =>
    LET wrapper == AppFormatType(Schema, last.format, last.prefix)
    IN  \A path \in FormatPaths :
          splitPath(path) # splitPath(last.path) =>
            AppFormatReadSet(wrapper, store, path)
              = AppFormatReadSet(wrapper, last.before, path)

====
